---- MODULE Spec2Model ----
(***************************************************************************)
(* Model of the DocumentDB log tooling:                                    *)
(*   log_parser_and_plotter.py : parse_log_files, adjust_cumulative_seconds*)
(*       plot_combined_operations, plot_separate_operation_graphs,         *)
(*       export_to_excel                                                   *)
(*   turnAroundTimeGrapg.py    : parse_log_files, adjust_cumulative_seconds*)
(*       (identical copies), plot_tat_growth_trend                         *)
(*                                                                         *)
(* A log line is the sequence of the lexical items in it that the two      *)
(* regular expressions of parse_log_files look for: a "[Second N]" marker, *)
(* an "<Kind> completed in M ms" clause, the text "All Operations          *)
(* completed".  Any other text of the line is left out, so a line of other *)
(* text only is the empty sequence.  The two searches are operators over   *)
(* such a sequence.                                                        *)
(***************************************************************************)
EXTENDS Integers, Sequences, FiniteSets, TLC

VARIABLES
    script,            \* which __main__ is running
    pc,                \* position in that __main__
    file_idx,          \* number of files opened so far by parse_log_files
    runs,              \* parse_log_files: runs
    current_run,       \* parse_log_files: current_run
    adjusted_entries,  \* result of adjust_cumulative_seconds
    saved,             \* names of the files written so far
    printed,           \* messages printed so far
    combined_series,   \* series drawn by plot_combined_operations
    separate_series,   \* per figure, series drawn by plot_separate_operation_graphs
    workbook,          \* sheets written by export_to_excel
    filtered_df,       \* plot_tat_growth_trend: filtered_df
    trends,            \* plot_tat_growth_trend: one entry per fitted regression
    seen,              \* history: records of the non-boundary matching lines read
    last_line,         \* history: what the most recent line contained
    carried            \* history: a file ended while current_run held records

vars == <<script, pc, file_idx, runs, current_run, adjusted_entries, saved,
          printed, combined_series, separate_series, workbook, filtered_df,
          trends, seen, last_line, carried>>

-----------------------------------------------------------------------------
(* Bounds of the model *)

MaxRecords == 3
MaxTokens == 3
MaxFiles == 2
MaxSecond == 2
MaxTrendEntries == 4

-----------------------------------------------------------------------------
(* Generic helpers *)

RECURSIVE Flatten(_)
Flatten(ss) == IF ss = <<>> THEN <<>> ELSE Head(ss) \o Flatten(Tail(ss))

RECURSIVE SumSeq(_)
SumSeq(s) == IF s = <<>> THEN 0 ELSE Head(s) + SumSeq(Tail(s))

SetMin(S) == CHOOSE x \in S : \A y \in S : x <= y
SetMax(S) == CHOOSE x \in S : \A y \in S : y <= x

RECURSIVE Gcd(_, _)
Gcd(a, b) == IF b = 0 THEN a ELSE Gcd(b, a % b)

Abs(a) == IF a < 0 THEN -a ELSE a

\* a / b as a fraction in lowest terms with a positive denominator (b # 0)
Fraction(a, b) ==
    LET g == Gcd(Abs(a), Abs(b))
        s == IF b < 0 THEN -1 ELSE 1
    IN  [num |-> (s * a) \div g, den |-> (s * b) \div g]

IntLessEq(a, b) == a <= b

\* tuples compare by their first component, then by their second
PairLessEq(a, b) == a[1] < b[1] \/ (a[1] = b[1] /\ a[2] <= b[2])

\* ascending order of a sequence of integers (stable insertion sort)
SortInts(s) ==
    LET RECURSIVE Ins(_, _)
        Ins(x, t) ==
            IF t = <<>> THEN <<x>>
            ELSE IF IntLessEq(Head(t), x) THEN <<Head(t)>> \o Ins(x, Tail(t))
                 ELSE <<x>> \o t
        RECURSIVE Srt(_)
        Srt(t) ==
            IF t = <<>> THEN <<>>
            ELSE Ins(t[Len(t)], Srt(SubSeq(t, 1, Len(t) - 1)))
    IN  Srt(s)

\* ascending order of a sequence of pairs, as Python's sorted() on tuples
SortPairs(s) ==
    LET RECURSIVE Ins(_, _)
        Ins(x, t) ==
            IF t = <<>> THEN <<x>>
            ELSE IF PairLessEq(Head(t), x) THEN <<Head(t)>> \o Ins(x, Tail(t))
                 ELSE <<x>> \o t
        RECURSIVE Srt(_)
        Srt(t) ==
            IF t = <<>> THEN <<>>
            ELSE Ins(t[Len(t)], Srt(SubSeq(t, 1, Len(t) - 1)))
    IN  Srt(s)

\* order of first appearance, as pandas' Series.unique()
RECURSIVE Unique(_)
Unique(s) ==
    IF s = <<>> THEN <<>>
    ELSE LET rest == Unique(SubSeq(s, 1, Len(s) - 1))
             x == s[Len(s)]
         IN  IF \E i \in 1..Len(rest) : rest[i] = x THEN rest ELSE Append(rest, x)

-----------------------------------------------------------------------------
(* Log lines *)

SecondTok(n) == [t |-> "second", kind |-> "-", n |-> n]
OpTok(kind, ms) == [t |-> "op", kind |-> kind, n |-> ms]
EndTok == [t |-> "end", kind |-> "-", n |-> 0]

LineTokens == {SecondTok(1), OpTok("Insert", 0), OpTok("Read", 7), EndTok}

Lines == UNION {[1..n -> LineTokens] : n \in 0..MaxTokens}

\* run_end_pattern.search(line): the text occurs anywhere in the line
run_end_search(line) == \E i \in 1..Len(line) : line[i].t = "end"

\* entry_pattern.search(line): <<>> for None, else <<entry>>.  The leftmost match
\* starts at the first "[Second N]" that has an operation clause after it, and
\* the lazy ".*?" stops at the first such clause.
entry_search(line) ==
    LET secs == {i \in 1..Len(line) : line[i].t = "second"}
    IN  IF secs = {} THEN <<>>
        ELSE LET i0 == SetMin(secs)
                 ops == {j \in (i0 + 1)..Len(line) : line[j].t = "op"}
             IN  IF ops = {} THEN <<>>
                 ELSE LET j0 == SetMin(ops)
                      IN  <<[second |-> line[i0].n,
                             operation |-> line[j0].kind,
                             duration |-> line[j0].n]>>

-----------------------------------------------------------------------------
(* parse_log_files *)

\* boundary lines discard the open run instead of emitting it
process_line_drop(rs, cur, line) ==
    IF run_end_search(line)
    THEN [runs |-> rs, current_run |-> <<>>]
    ELSE LET match == entry_search(line)
         IN  IF match # <<>>
             THEN [runs |-> rs, current_run |-> Append(cur, match[1])]
             ELSE [runs |-> rs, current_run |-> cur]

\* boundary lines emit the buffer even when it is empty
process_line_emit_empty(rs, cur, line) ==
    IF run_end_search(line)
    THEN [runs |-> Append(rs, cur), current_run |-> <<>>]
    ELSE LET match == entry_search(line)
         IN  IF match # <<>>
             THEN [runs |-> rs, current_run |-> Append(cur, match[1])]
             ELSE [runs |-> rs, current_run |-> cur]

\* the operation pattern is tried before the boundary pattern
process_line_entry_first(rs, cur, line) ==
    LET match == entry_search(line)
    IN  IF match # <<>>
        THEN [runs |-> rs, current_run |-> Append(cur, match[1])]
        ELSE IF run_end_search(line) /\ cur # <<>>
             THEN [runs |-> Append(rs, cur), current_run |-> <<>>]
             ELSE [runs |-> rs, current_run |-> cur]

\* body of "for line in lines"
process_line(rs, cur, line) ==
    IF run_end_search(line)
    THEN IF cur # <<>>
         THEN [runs |-> Append(rs, cur), current_run |-> <<>>]
         ELSE [runs |-> rs, current_run |-> cur]
    ELSE LET match == entry_search(line)
         IN  IF match # <<>>
             THEN [runs |-> rs, current_run |-> Append(cur, match[1])]
             ELSE [runs |-> rs, current_run |-> cur]

\* the buffer left at the end of the input is returned without the last run
final_runs_no_flush(rs, cur) == rs

\* "if current_run: runs.append(current_run)" after the loops
final_runs(rs, cur) == IF cur # <<>> THEN Append(rs, cur) ELSE rs

-----------------------------------------------------------------------------
(* adjust_cumulative_seconds *)

Kinds == {"Insert", "Update", "Read"}

max_second(run) == SetMax({run[k].second : k \in 1..Len(run)})

\* the offset advances by max_second only
next_offset_no_gap(offset, run) ==
    IF run # <<>> THEN offset + max_second(run) ELSE offset

\* the offset is set to max_second + 1 instead of being increased by it
next_offset_not_accumulated(offset, run) ==
    IF run # <<>> THEN max_second(run) + 1 ELSE offset

\* "if run: cumulative_offset += max(second) + 1"
next_offset(offset, run) ==
    IF run # <<>> THEN offset + max_second(run) + 1 ELSE offset

\* the inner loop: one adjusted copy per entry of the run
adjust_run(run, run_index, offset) ==
    [k \in 1..Len(run) |->
        [second |-> run[k].second,
         operation |-> run[k].operation,
         duration |-> run[k].duration,
         run |-> run_index,
         cumulative_second |-> run[k].second + offset]]

RECURSIVE adjust_from(_, _, _, _)
adjust_from(rs, run_index, offset, acc) ==
    IF run_index > Len(rs) THEN acc
    ELSE adjust_from(rs, run_index + 1, next_offset(offset, rs[run_index]),
                     acc \o adjust_run(rs[run_index], run_index, offset))

adjust_cumulative_seconds(rs) == adjust_from(rs, 1, 0, <<>>)

-----------------------------------------------------------------------------
(* plot_combined_operations, plot_separate_operation_graphs *)

operation_types == <<"Insert", "Update", "Read">>

\* sorted(set(e['run'] for e in entries))
run_ids(entries) ==
    SortInts(Unique([k \in 1..Len(entries) |-> entries[k].run]))

\* sorted((cumulative_second, duration)) of the entries of one operation and run
series_points(entries, op, run) ==
    LET sel == SelectSeq(entries, LAMBDA e : e.operation = op /\ e.run = run)
    IN  SortPairs([k \in 1..Len(sel) |->
                      <<sel[k].cumulative_second, sel[k].duration>>])

\* the series of one operation, one per run that has data, in run order
op_series(entries, op) ==
    LET ids == run_ids(entries)
        all == [k \in 1..Len(ids) |->
                   [operation |-> op, run |-> ids[k],
                    points |-> series_points(entries, op, ids[k])]]
    IN  SelectSeq(all, LAMBDA sr : sr.points # <<>>)

\* the "if not entries" guard is missing: an empty figure is saved
plot_combined_operations_unguarded(entries) ==
    [saved |-> {"combined_operation_durations_xcap.png"},
     printed |-> <<>>,
     series |-> Flatten([i \in 1..Len(operation_types) |->
                            op_series(entries, operation_types[i])])]

plot_combined_operations(entries) ==
    IF entries = <<>>
    THEN [saved |-> {}, printed |-> <<"No entries to plot.">>, series |-> <<>>]
    ELSE [saved |-> {"combined_operation_durations_xcap.png"},
          printed |-> <<>>,
          series |-> Flatten([i \in 1..Len(operation_types) |->
                                 op_series(entries, operation_types[i])])]

separate_file(op) ==
    CASE op = "Insert" -> "insert_operation_durations_xcap.png"
      [] op = "Update" -> "update_operation_durations_xcap.png"
      [] op = "Read" -> "read_operation_durations_xcap.png"

\* one iteration of "for op_type in operation_types": the figure of one
\* operation is drawn and saved, then shown
plot_separate_figure(entries, op_type) ==
    [saved |-> {separate_file(op_type)}, series |-> op_series(entries, op_type)]

\* the whole call: the guard, or every iteration of the loop
plot_separate_operation_graphs(entries) ==
    IF entries = <<>>
    THEN [saved |-> {}, printed |-> <<"No entries to plot.">>, series |-> <<>>]
    ELSE [saved |-> UNION {plot_separate_figure(entries, operation_types[i]).saved :
                              i \in 1..Len(operation_types)},
          printed |-> <<>>,
          series |-> [i \in 1..Len(operation_types) |->
                         plot_separate_figure(entries, operation_types[i]).series]]

-----------------------------------------------------------------------------
(* export_to_excel *)

\* group keys come out of groupby sorted: operation names in string order
sorted_operations == <<"Insert", "Read", "Update">>

raw_data_rows(entries) ==
    [k \in 1..Len(entries) |->
        [Run |-> entries[k].run,
         Second |-> entries[k].second,
         CumulativeSecond |-> entries[k].cumulative_second,
         Operation |-> entries[k].operation,
         Duration |-> entries[k].duration]]

\* zero durations are kept in the statistics
nonzero_keep_all(df) == df

\* df[df['duration'] > 0]
nonzero(df) == SelectSeq(df, LAMBDA e : e.duration > 0)

durations_of(df) == [k \in 1..Len(df) |-> df[k].duration]

\* count, mean, min, max of a non-empty group; the mean is an exact fraction
agg(durs) ==
    [Count |-> Len(durs),
     Mean |-> Fraction(SumSeq(durs), Len(durs)),
     Min |-> SetMin({durs[k] : k \in 1..Len(durs)}),
     Max |-> SetMax({durs[k] : k \in 1..Len(durs)})]

\* groupby(['run', 'operation'])['duration'].agg(...).reset_index()
run_stats_rows(df) ==
    LET ids == run_ids(df)
        group(r, op) == SelectSeq(df, LAMBDA e : e.run = r /\ e.operation = op)
        keys == Flatten([i \in 1..Len(ids) |->
                    [j \in 1..Len(sorted_operations) |->
                        <<ids[i], sorted_operations[j]>>]])
        present == SelectSeq(keys, LAMBDA key : group(key[1], key[2]) # <<>>)
    IN  [k \in 1..Len(present) |->
            [Run |-> present[k][1], Operation |-> present[k][2],
             Stats |-> agg(durations_of(group(present[k][1], present[k][2])))]]

\* groupby(['operation'])['duration'].agg(...).reset_index()
consolidated_rows(df) ==
    LET group(op) == SelectSeq(df, LAMBDA e : e.operation = op)
        present == SelectSeq(sorted_operations, LAMBDA op : group(op) # <<>>)
    IN  [k \in 1..Len(present) |->
            [Operation |-> present[k],
             Stats |-> agg(durations_of(group(present[k])))]]

export_to_excel(entries) ==
    IF entries = <<>>
    THEN [saved |-> {}, printed |-> <<"No entries to export.">>, workbook |-> <<>>]
    ELSE [saved |-> {"operation_stats.xlsx"},
          printed |-> <<>>,
          workbook |-> <<[raw_data |-> raw_data_rows(entries),
                          run_stats |-> run_stats_rows(nonzero(entries)),
                          consolidated |-> consolidated_rows(nonzero(entries))]>>]

-----------------------------------------------------------------------------
(* plot_tat_growth_trend *)

\* df = pd.DataFrame(entries); df['cumulative_ms'] = df['cumulative_second']
with_cumulative_ms(entries) ==
    [k \in 1..Len(entries) |->
        [second |-> entries[k].second,
         operation |-> entries[k].operation,
         duration |-> entries[k].duration,
         run |-> entries[k].run,
         cumulative_second |-> entries[k].cumulative_second,
         cumulative_ms |-> entries[k].cumulative_second]]

operations_in(df) == Unique([k \in 1..Len(df) |-> df[k].operation])

\* the quartiles are taken over the whole frame
subset_whole_frame(df, op) == df

\* df[df['operation'] == op]
subset(df, op) == SelectSeq(df, LAMBDA e : e.operation = op)

\* 4 * Series.quantile(q4 / 4) with linear interpolation between the closest
\* ranks, for q4 = 1 or 3: an integer, because the rank q4 * (n - 1) / 4 has a
\* fractional part that is a multiple of 1/4
quantile_x4(durs, q4) ==
    LET sorted == SortInts(durs)
        pos4 == q4 * (Len(durs) - 1)
        lo == pos4 \div 4
        frac4 == pos4 % 4
    IN  IF frac4 = 0 THEN 4 * sorted[lo + 1]
        ELSE 4 * sorted[lo + 1] + frac4 * (sorted[lo + 2] - sorted[lo + 1])

\* subset[(duration >= Q1 - 1.5 * IQR) & (duration <= Q3 + 1.5 * IQR)], with
\* Q1, Q3 and IQR held as four times their value
iqr_filter(sub) ==
    LET Q1 == quantile_x4(durations_of(sub), 1)
        Q3 == quantile_x4(durations_of(sub), 3)
        IQR == Q3 - Q1
    IN  SelectSeq(sub, LAMBDA e : 8 * e.duration >= 2 * Q1 - 3 * IQR
                                  /\ 8 * e.duration <= 2 * Q3 + 3 * IQR)

\* the loop that builds filtered_df, one block per operation in order of
\* first appearance
remove_outliers(df) ==
    LET ops == operations_in(df)
    IN  Flatten([i \in 1..Len(ops) |-> iqr_filter(subset(df, ops[i]))])

\* LinearRegression().fit(x, y): least squares on one feature with an
\* intercept; when every x is the same the minimum-norm solution has slope 0
linear_regression(x, y) ==
    LET n == Len(x)
        Sx == SumSeq(x)
        Sy == SumSeq(y)
        Sxy == SumSeq([k \in 1..n |-> x[k] * y[k]])
        Sxx == SumSeq([k \in 1..n |-> x[k] * x[k]])
        den == n * Sxx - Sx * Sx
        num == n * Sxy - Sx * Sy
    IN  IF den = 0
        THEN [slope |-> Fraction(0, 1), intercept |-> Fraction(Sy, n)]
        ELSE [slope |-> Fraction(num, den),
              intercept |-> Fraction(Sy * den - num * Sx, n * den)]

\* the loop over filtered_df['operation'].unique(): one fit per operation
fit_trends(filtered) ==
    LET ops == operations_in(filtered)
    IN  [i \in 1..Len(ops) |->
            LET op_data == SelectSeq(filtered, LAMBDA e : e.operation = ops[i])
                model == linear_regression(
                             [k \in 1..Len(op_data) |-> op_data[k].cumulative_ms],
                             [k \in 1..Len(op_data) |-> op_data[k].duration])
            IN  [operation |-> ops[i], points |-> Len(op_data),
                 slope |-> model.slope, intercept |-> model.intercept]]

plot_tat_growth_trend(entries) ==
    IF entries = <<>>
    THEN [saved |-> {}, printed |-> <<"No data to plot.">>,
          filtered_df |-> <<>>, trends |-> <<>>]
    ELSE LET filtered == remove_outliers(with_cumulative_ms(entries))
         IN  [saved |-> {"tat_growth_trend_by_operation.png"},
              printed |-> <<>>,
              filtered_df |-> filtered,
              trends |-> fit_trends(filtered)]

-----------------------------------------------------------------------------
(* The two programs: parse, adjust, then the consumers of each __main__ *)

Scripts == {"log_parser_and_plotter", "turnAroundTimeGrapg"}

NoLine == [end |-> FALSE, entry |-> <<>>, buffered |-> FALSE]

\* what entry_pattern.search can return on a line
LineEntries == {entry_search(line) : line \in Lines}

\* state of a program whose parse_log_files has returned rs.  Any number of
\* files was read (none only if there are no runs); a run was open at the end
\* of a file before the last one only if there are runs.  The last line read
\* was a boundary line, with or without a record on it and with or without
\* an open run before it; or other text, with or without an open run; or the
\* last record.  current_run is the last run unless no run was open.
AfterParse(sc, position, rs) ==
    /\ script = sc
    /\ pc = position
    /\ file_idx \in (IF rs = <<>> THEN 0..MaxFiles ELSE 1..MaxFiles)
    /\ runs = rs
    /\ \/ /\ current_run = <<>>
          /\ last_line = NoLine
       \/ /\ file_idx >= 1
          /\ current_run = <<>>
          /\ \E e \in LineEntries :
                \E b \in (IF rs = <<>> THEN {FALSE} ELSE BOOLEAN) :
                   last_line = [end |-> TRUE, entry |-> e, buffered |-> b]
       \/ /\ rs # <<>>
          /\ current_run = rs[Len(rs)]
          /\ \/ last_line = [end |-> FALSE, entry |-> <<>>, buffered |-> TRUE]
             \/ last_line = [end |-> FALSE,
                             entry |-> <<[second |-> current_run[Len(current_run)].second,
                                          operation |-> current_run[Len(current_run)].operation,
                                          duration |-> current_run[Len(current_run)].duration]>>,
                             buffered |-> Len(current_run) > 1]
    /\ seen = Flatten(rs)
    /\ carried \in (IF file_idx >= 2 /\ rs # <<>> THEN BOOLEAN ELSE {FALSE})

NothingWritten ==
    /\ saved = {}
    /\ printed = <<>>
    /\ combined_series = <<>>
    /\ separate_series = <<>>
    /\ workbook = <<>>
    /\ filtered_df = <<>>
    /\ trends = <<>>

Init ==
    /\ script \in Scripts
    /\ pc = "parse"
    /\ file_idx = 0
    /\ runs = <<>>
    /\ current_run = <<>>
    /\ adjusted_entries = <<>>
    /\ seen = <<>>
    /\ last_line = NoLine
    /\ carried = FALSE
    /\ NothingWritten

\* "for filepath in sorted(glob.glob(file_pattern))": the next file is opened;
\* runs and current_run are not touched between files
OpenNextFile ==
    /\ pc = "parse"
    /\ file_idx < MaxFiles
    /\ file_idx' = file_idx + 1
    /\ carried' = (carried \/ current_run # <<>>)
    /\ UNCHANGED <<script, pc, runs, current_run, adjusted_entries, saved,
                   printed, combined_series, separate_series, workbook,
                   filtered_df, trends, seen, last_line>>

\* one iteration of "for line in lines" on any line of the open file
ReadLine ==
    /\ pc = "parse"
    /\ file_idx >= 1
    /\ \E line \in Lines :
          LET isEntry == ~run_end_search(line) /\ entry_search(line) # <<>>
              r == process_line(runs, current_run, line)
          IN  /\ isEntry => Len(seen) < MaxRecords
              /\ runs' = r.runs
              /\ current_run' = r.current_run
              /\ seen' = (IF isEntry THEN Append(seen, entry_search(line)[1])
                          ELSE seen)
              /\ last_line' = [end |-> run_end_search(line),
                               entry |-> entry_search(line),
                               buffered |-> (current_run # <<>>)]
    /\ UNCHANGED <<script, pc, file_idx, adjusted_entries, saved, printed,
                   combined_series, separate_series, workbook, filtered_df,
                   trends, carried>>

\* all files are read: the open run is emitted and parse_log_files returns
EndOfInput ==
    /\ pc = "parse"
    /\ runs' = final_runs(runs, current_run)
    /\ pc' = "adjust"
    /\ UNCHANGED <<script, file_idx, current_run, adjusted_entries, saved,
                   printed, combined_series, separate_series, workbook,
                   filtered_df, trends, seen, last_line, carried>>

AdjustCumulativeSeconds ==
    /\ pc = "adjust"
    /\ adjusted_entries' = adjust_cumulative_seconds(runs)
    /\ pc' = (IF script = "log_parser_and_plotter" THEN "plot_combined"
              ELSE "plot_tat")
    /\ UNCHANGED <<script, file_idx, runs, current_run, saved, printed,
                   combined_series, separate_series, workbook, filtered_df,
                   trends, seen, last_line, carried>>

PlotCombinedOperations ==
    /\ pc = "plot_combined"
    /\ LET r == plot_combined_operations(adjusted_entries)
       IN  /\ saved' = saved \cup r.saved
           /\ printed' = printed \o r.printed
           /\ combined_series' = r.series
    /\ pc' = "plot_separate"
    /\ UNCHANGED <<script, file_idx, runs, current_run, adjusted_entries,
                   separate_series, workbook, filtered_df, trends, seen,
                   last_line, carried>>

\* plot_separate_operation_graphs is called with no entries: it prints and
\* returns
PlotSeparateOperationGraphs ==
    /\ pc = "plot_separate"
    /\ adjusted_entries = <<>>
    /\ LET r == plot_separate_operation_graphs(adjusted_entries)
       IN  /\ saved' = saved \cup r.saved
           /\ printed' = printed \o r.printed
           /\ separate_series' = r.series
    /\ pc' = "export"
    /\ UNCHANGED <<script, file_idx, runs, current_run, adjusted_entries,
                   combined_series, workbook, filtered_df, trends, seen,
                   last_line, carried>>

\* one iteration of the loop of plot_separate_operation_graphs, up to the
\* return of its plt.show(); the call returns after the last one
PlotSeparateFigure ==
    /\ pc = "plot_separate"
    /\ adjusted_entries # <<>>
    /\ LET i == Len(separate_series) + 1
           r == plot_separate_figure(adjusted_entries, operation_types[i])
       IN  /\ saved' = saved \cup r.saved
           /\ separate_series' = Append(separate_series, r.series)
           /\ pc' = (IF i = Len(operation_types) THEN "export"
                     ELSE "plot_separate")
    /\ UNCHANGED <<script, file_idx, runs, current_run, adjusted_entries,
                   printed, combined_series, workbook, filtered_df, trends,
                   seen, last_line, carried>>

ExportToExcel ==
    /\ pc = "export"
    /\ LET r == export_to_excel(adjusted_entries)
       IN  /\ saved' = saved \cup r.saved
           /\ printed' = printed \o r.printed
           /\ workbook' = r.workbook
    /\ pc' = "done"
    /\ UNCHANGED <<script, file_idx, runs, current_run, adjusted_entries,
                   combined_series, separate_series, filtered_df, trends, seen,
                   last_line, carried>>

PlotTatGrowthTrend ==
    /\ pc = "plot_tat"
    /\ LET r == plot_tat_growth_trend(adjusted_entries)
       IN  /\ saved' = saved \cup r.saved
           /\ printed' = printed \o r.printed
           /\ filtered_df' = r.filtered_df
           /\ trends' = r.trends
    /\ pc' = "done"
    /\ UNCHANGED <<script, file_idx, runs, current_run, adjusted_entries,
                   combined_series, separate_series, workbook, seen, last_line,
                   carried>>

Next ==
    \/ OpenNextFile
    \/ ReadLine
    \/ EndOfInput
    \/ AdjustCumulativeSeconds
    \/ PlotCombinedOperations
    \/ PlotSeparateOperationGraphs
    \/ PlotSeparateFigure
    \/ ExportToExcel
    \/ PlotTatGrowthTrend

Spec == Init /\ [][Next]_vars

-----------------------------------------------------------------------------
(* Inputs of the specifications that start after parse_log_files *)

\* seq cut into non-empty runs after the positions in cuts, a subset of
\* 1..Len(seq)-1
RECURSIVE Split(_, _)
Split(seq, cuts) ==
    IF seq = <<>> THEN <<>>
    ELSE LET first == IF cuts = {} THEN Len(seq) ELSE SetMin(cuts)
         IN  <<SubSeq(seq, 1, first)>>
             \o Split(SubSeq(seq, first + 1, Len(seq)),
                      {c - first : c \in cuts \ {first}})

\* an Insert record in any second, and the Read record of second 1
AdjustRecords ==
    {[second |-> sec, operation |-> "Insert", duration |-> 0] :
        sec \in 0..MaxSecond}
    \cup {[second |-> 1, operation |-> "Read", duration |-> 7]}

ExportRecords ==
    [second : {0}, operation : {"Insert"}, duration : {0, 10, 20}]
    \cup [second : {0}, operation : {"Read"}, duration : {0, 10}]

TrendKinds == {"Insert", "Read"}

TrendDurations == {1, 4}

\* one run whose k-th record is logged in second k - 1
TrendRun(ops, durs) ==
    [k \in 1..Len(ops) |->
        [second |-> k - 1, operation |-> ops[k], duration |-> durs[k]]]

TrendExamples ==
    {<<TrendRun(<<"Read", "Read", "Read", "Read", "Read">>,
                <<10, 12, 11, 13, 1000>>)>>,
     <<TrendRun(<<"Read", "Read", "Insert", "Read", "Read", "Read">>,
                <<10, 12, 1000, 11, 13, 1000>>)>>,
     <<TrendRun(<<"Read", "Update", "Read", "Read", "Read">>,
                <<1, 4, 1, 4, 1>>)>>}

\* adjust_cumulative_seconds is about to be called on the runs parsed
InitAdjust ==
    /\ adjusted_entries = <<>>
    /\ NothingWritten
    /\ \E sc \in Scripts, m \in 0..MaxRecords :
          \E sq \in [1..m -> AdjustRecords], cuts \in SUBSET (1..(m - 1)) :
             AfterParse(sc, "adjust", Split(sq, cuts))

NextAdjust == AdjustCumulativeSeconds

SpecAdjust == InitAdjust /\ [][NextAdjust]_vars

\* plot_tat_growth_trend is about to be called on the adjusted entries of rs
BeforeTrend(rs) ==
    /\ adjusted_entries = adjust_cumulative_seconds(rs)
    /\ NothingWritten
    /\ AfterParse("turnAroundTimeGrapg", "plot_tat", rs)

InitTrend ==
    \/ \E m \in 0..MaxTrendEntries :
          \E ops \in [1..m -> TrendKinds], durs \in [1..m -> TrendDurations] :
             BeforeTrend(IF m = 0 THEN <<>> ELSE <<TrendRun(ops, durs)>>)
    \/ \E rs \in TrendExamples : BeforeTrend(rs)

NextTrend == PlotTatGrowthTrend

SpecTrend == InitTrend /\ [][NextTrend]_vars

\* export_to_excel is about to be called on the adjusted entries of rs, after
\* the two plotting functions
BeforeExport(rs) ==
    /\ adjusted_entries = adjust_cumulative_seconds(rs)
    /\ LET r1 == plot_combined_operations(adjusted_entries)
           r2 == plot_separate_operation_graphs(adjusted_entries)
       IN  /\ saved = r1.saved \cup r2.saved
           /\ printed = r1.printed \o r2.printed
           /\ combined_series = r1.series
           /\ separate_series = r2.series
    /\ workbook = <<>>
    /\ filtered_df = <<>>
    /\ trends = <<>>
    /\ AfterParse("log_parser_and_plotter", "export", rs)

InitExport ==
    \E m \in 0..MaxRecords :
       \E sq \in [1..m -> ExportRecords], cuts \in SUBSET (1..(m - 1)) :
          BeforeExport(Split(sq, cuts))

NextExport == ExportToExcel

SpecExport == InitExport /\ [][NextExport]_vars

-----------------------------------------------------------------------------
(* Properties *)

\* a ReadLine step: parse_log_files stays in the file it is reading
IsReadStep == pc = "parse" /\ pc' = "parse" /\ file_idx' = file_idx

SecondsOf(run) == [k \in 1..Len(run) |-> run[k].second]

CumulativeOfRun(i) ==
    {adjusted_entries[k].cumulative_second :
        k \in {n \in 1..Len(adjusted_entries) : adjusted_entries[n].run = i}}

\* C1: once adjust_cumulative_seconds has returned, every run has entries and,
\* for consecutive runs i and i+1, the largest cumulative_second of run i is
\* strictly less than the smallest cumulative_second of run i+1.
C1_RunsStrictlyOrdered ==
    pc # "adjust" =>
        /\ \A i \in 1..Len(runs) : CumulativeOfRun(i) # {}
        /\ \A i \in 1..(Len(runs) - 1) :
              SetMax(CumulativeOfRun(i)) < SetMin(CumulativeOfRun(i + 1))

\* a run with a record after second 0 is followed by a run that starts at second 0
C1_Witness ==
    /\ pc # "adjust"
    /\ Len(runs) >= 2
    /\ max_second(runs[1]) >= 1
    /\ runs[2][1].second = 0
    /\ adjusted_entries # <<>>

\* sum of (maximum run-local second + 1) over the runs before run i
RECURSIVE ClaimOffset(_)
ClaimOffset(i) ==
    IF i = 1 THEN 0
    ELSE ClaimOffset(i - 1)
         + SetMax({runs[i - 1][k].second : k \in 1..Len(runs[i - 1])}) + 1

\* index in adjusted_entries of the j-th record of run i
ClaimIndex(i, j) == SumSeq([m \in 1..(i - 1) |-> Len(runs[m])]) + j

\* C3: every record of run i gets cumulative_second = second + the sum over the
\* earlier runs of (their maximum second + 1); for runs with seconds
\* [[0, 2], [0]] the cumulative seconds are [0, 2, 3].
C3_OffsetIsSumOfPriorRuns ==
    pc # "adjust" =>
        /\ Len(adjusted_entries) = Len(Flatten(runs))
        /\ \A i \in 1..Len(runs) : \A j \in 1..Len(runs[i]) :
              LET e == adjusted_entries[ClaimIndex(i, j)]
              IN  /\ e.run = i
                  /\ e.second = runs[i][j].second
                  /\ e.cumulative_second = runs[i][j].second + ClaimOffset(i)
        /\ ([i \in 1..Len(runs) |-> SecondsOf(runs[i])] = <<<<0, 2>>, <<0>>>>
              => [k \in 1..Len(adjusted_entries) |->
                     adjusted_entries[k].cumulative_second] = <<0, 2, 3>>)

\* three runs, the first being the single record of second 0
C3_Witness ==
    /\ pc # "adjust"
    /\ Len(runs) = 3
    /\ SecondsOf(runs[1]) = <<0>>
    /\ adjusted_entries[3].cumulative_second = adjusted_entries[3].second + 2

\* the runs of the example have been adjusted
C3_ExampleReached ==
    /\ pc # "adjust"
    /\ [i \in 1..Len(runs) |-> SecondsOf(runs[i])] = <<<<0, 2>>, <<0>>>>

\* C2: no emitted run is empty, and a boundary line read while current_run is
\* empty leaves runs and current_run as they were.
C2_NoEmptyRun ==
    /\ [](\A i \in 1..Len(runs) : runs[i] # <<>>)
    /\ [][(IsReadStep /\ last_line'.end /\ current_run = <<>>)
            => (runs' = runs /\ current_run' = <<>>)]_vars

\* a boundary line was read directly after a run was emitted
C2_Witness ==
    /\ pc = "parse"
    /\ last_line.end
    /\ ~last_line.buffered
    /\ Len(runs) = 1
    /\ current_run = <<>>

\* C4: a line that contains "All Operations completed" appends nothing: after
\* it current_run is empty and the records held are those held before, also
\* when the line matches the operation pattern.
C4_BoundaryNeverAppends ==
    [][(IsReadStep /\ last_line'.end)
         => /\ current_run' = <<>>
            /\ Flatten(runs') = Flatten(runs) \o current_run]_vars

\* a line with both the boundary text and an operation match was read while
\* records were buffered
C4_Witness ==
    /\ last_line.end
    /\ last_line.entry # <<>>
    /\ last_line.buffered
    /\ runs # <<>>

\* C5: when the input ends with records in current_run, they are emitted as
\* the last run.
C5_FinalRunEmitted ==
    [][(pc = "parse" /\ pc' = "adjust" /\ current_run # <<>>)
         => runs' = Append(runs, current_run)]_vars

\* the input ended with records read after the last boundary
C5_Witness ==
    /\ pc = "adjust"
    /\ Len(runs) >= 2
    /\ current_run # <<>>
    /\ runs[Len(runs)] = current_run
    /\ last_line.entry # <<>>
    /\ ~last_line.end

\* C10: the runs, followed by the open run while parsing, concatenate to the
\* records of the non-boundary matching lines in the order read; opening the
\* next file changes neither runs nor current_run; a line matching neither
\* pattern changes nothing.
C10_NoRecordLost ==
    /\ [](IF pc = "parse" THEN Flatten(runs) \o current_run = seen
          ELSE Flatten(runs) = seen)
    /\ [][file_idx' # file_idx
            => (runs' = runs /\ current_run' = current_run)]_vars
    /\ [][(IsReadStep /\ ~last_line'.end /\ last_line'.entry = <<>>)
            => (runs' = runs /\ current_run' = current_run)]_vars

\* a run spans two files and a later run follows it
C10_Witness ==
    /\ pc # "parse"
    /\ carried
    /\ file_idx >= 2
    /\ Len(runs) >= 2
    /\ Len(seen) >= 3

NothingProduced ==
    /\ saved = {}
    /\ combined_series = <<>>
    /\ separate_series = <<>>
    /\ workbook = <<>>
    /\ filtered_df = <<>>
    /\ trends = <<>>

\* C9: as long as no operation line has been read there are no runs, no
\* adjusted entries, and no consumer writes a file or computes a result.
C9_EmptyInputEmptyResults ==
    seen = <<>> => (runs = <<>> /\ adjusted_entries = <<>> /\ NothingProduced)

\* the consumers have returned on an input with lines but no operation line
C9_Witness ==
    /\ pc = "done"
    /\ script = "log_parser_and_plotter"
    /\ seen = <<>>
    /\ last_line.end
    /\ Len(printed) = 3

\* the consumers have returned on an input with no files
C9_NoSourcesReached ==
    pc = "done" /\ file_idx = 0

\* C6 as claimed: after plot_tat_growth_trend, an operation kind with fewer
\* than 2 records in filtered_df has no fitted trend.
C6_FewerThanTwoSkipped ==
    (pc = "done" /\ script = "turnAroundTimeGrapg") =>
        \A op \in Kinds :
            Len(SelectSeq(filtered_df, LAMBDA e : e.operation = op)) < 2
                => \A i \in 1..Len(trends) : trends[i].operation # op

EntriesOf(op) == SelectSeq(adjusted_entries, LAMBDA e : e.operation = op)

\* the k-th smallest duration among the entries of one operation kind
ClaimOrderStatistic(op, k) ==
    LET es == EntriesOf(op)
    IN  CHOOSE v \in {es[i].duration : i \in 1..Len(es)} :
            /\ Cardinality({i \in 1..Len(es) : es[i].duration < v}) < k
            /\ k <= Cardinality({i \in 1..Len(es) : es[i].duration <= v})

\* four times the quartile q4/4 of the durations of one kind, interpolated
\* linearly between the two order statistics around rank q4 * (n - 1) / 4
ClaimQuartile_x4(op, q4) ==
    LET pos4 == q4 * (Len(EntriesOf(op)) - 1)
        lo == pos4 \div 4
        f == pos4 % 4
    IN  IF f = 0 THEN 4 * ClaimOrderStatistic(op, lo + 1)
        ELSE (4 - f) * ClaimOrderStatistic(op, lo + 1)
             + f * ClaimOrderStatistic(op, lo + 2)

\* Q1 - 1.5 * IQR <= duration <= Q3 + 1.5 * IQR, all multiplied by 8
ClaimKept(e) ==
    LET Q1 == ClaimQuartile_x4(e.operation, 1)
        Q3 == ClaimQuartile_x4(e.operation, 3)
    IN  /\ 2 * Q1 - 3 * (Q3 - Q1) <= 8 * e.duration
        /\ 8 * e.duration <= 2 * Q3 + 3 * (Q3 - Q1)

EntryFields(row) ==
    [second |-> row.second, operation |-> row.operation,
     duration |-> row.duration, run |-> row.run,
     cumulative_second |-> row.cumulative_second]

FilteredOf(op) ==
    LET rows == SelectSeq(filtered_df, LAMBDA e : e.operation = op)
    IN  [k \in 1..Len(rows) |-> EntryFields(rows[k])]

\* C7: after the outlier filter, the records of each operation kind that are
\* left are exactly the records of that kind whose duration lies within
\* [Q1 - 1.5 IQR, Q3 + 1.5 IQR] of the quartiles of that kind alone; Read
\* durations [10, 12, 11, 13, 1000] keep [10, 12, 11, 13].
C7_OutlierFilterPerKind ==
    (pc = "done" /\ adjusted_entries # <<>>) =>
        /\ \A op \in Kinds : FilteredOf(op) = SelectSeq(EntriesOf(op), ClaimKept)
        /\ Len(filtered_df) = SumSeq([i \in 1..Len(operation_types) |->
                                        Len(FilteredOf(operation_types[i]))])
        /\ durations_of(EntriesOf("Read")) = <<10, 12, 11, 13, 1000>>
              => durations_of(FilteredOf("Read")) = <<10, 12, 11, 13>>

\* the Read durations of the example were filtered next to an Insert of 1000 ms
C7_Witness ==
    /\ pc = "done"
    /\ durations_of(EntriesOf("Read")) = <<10, 12, 11, 13, 1000>>
    /\ durations_of(EntriesOf("Insert")) = <<1000>>
    /\ Len(filtered_df) = 5

\* an outlier of one kind was removed from an input of small durations that
\* holds another kind too
C7_MixedOutlierReached ==
    /\ pc = "done"
    /\ \A k \in 1..Len(adjusted_entries) :
          adjusted_entries[k].duration \in TrendDurations
    /\ Len(filtered_df) < Len(adjusted_entries)
    /\ EntriesOf("Read") # <<>>
    /\ EntriesOf("Update") # <<>>

ClaimPositive(rs, op) ==
    {k \in 1..Len(adjusted_entries) :
        /\ adjusted_entries[k].run \in rs
        /\ adjusted_entries[k].operation = op
        /\ adjusted_entries[k].duration > 0}

RECURSIVE ClaimTotal(_)
ClaimTotal(K) ==
    IF K = {} THEN 0
    ELSE LET k == CHOOSE x \in K : TRUE
         IN  adjusted_entries[k].duration + ClaimTotal(K \ {k})

\* count, minimum, maximum and mean of the records K
ClaimStatsMatch(stats, K) ==
    LET durs == {adjusted_entries[k].duration : k \in K}
    IN  /\ stats.Count = Cardinality(K)
        /\ stats.Min = SetMin(durs)
        /\ stats.Max = SetMax(durs)
        /\ stats.Mean.num * Cardinality(K) = stats.Mean.den * ClaimTotal(K)

AllRuns == 1..Len(runs)

\* C8: the two statistics sheets hold one row per group that has a record of
\* duration > 0, computed over those records only; the raw sheet holds every
\* record; Insert durations [0, 10, 20] give count 2, mean 15, min 10, max 20.
C8_StatsExcludeZero ==
    (pc = "done" /\ adjusted_entries # <<>>) =>
        /\ workbook # <<>>
        /\ LET wb == workbook[1]
           IN  /\ \A r \in AllRuns, op \in Kinds :
                     LET rows == {i \in 1..Len(wb.run_stats) :
                                     /\ wb.run_stats[i].Run = r
                                     /\ wb.run_stats[i].Operation = op}
                     IN  IF ClaimPositive({r}, op) = {} THEN rows = {}
                         ELSE /\ Cardinality(rows) = 1
                              /\ \A i \in rows :
                                    ClaimStatsMatch(wb.run_stats[i].Stats,
                                                    ClaimPositive({r}, op))
               /\ \A op \in Kinds :
                     LET rows == {i \in 1..Len(wb.consolidated) :
                                     wb.consolidated[i].Operation = op}
                     IN  IF ClaimPositive(AllRuns, op) = {} THEN rows = {}
                         ELSE /\ Cardinality(rows) = 1
                              /\ \A i \in rows :
                                    ClaimStatsMatch(wb.consolidated[i].Stats,
                                                    ClaimPositive(AllRuns, op))
               /\ Len(wb.raw_data) = Len(adjusted_entries)
               /\ \A k \in 1..Len(adjusted_entries) :
                     /\ wb.raw_data[k].Run = adjusted_entries[k].run
                     /\ wb.raw_data[k].Operation = adjusted_entries[k].operation
                     /\ wb.raw_data[k].Duration = adjusted_entries[k].duration
               /\ (/\ durations_of(adjusted_entries) = <<0, 10, 20>>
                   /\ \A k \in 1..3 : adjusted_entries[k].operation = "Insert")
                     => wb.consolidated =
                           <<[Operation |-> "Insert",
                              Stats |-> [Count |-> 2,
                                         Mean |-> [num |-> 15, den |-> 1],
                                         Min |-> 10, Max |-> 20]]>>

\* the example was exported: one run of Insert durations 0, 10, 20
C8_Witness ==
    /\ pc = "done"
    /\ Len(runs) = 1
    /\ durations_of(adjusted_entries) = <<0, 10, 20>>
    /\ \A k \in 1..3 : adjusted_entries[k].operation = "Insert"
    /\ Len(workbook[1].raw_data) = 3
    /\ Len(workbook[1].run_stats) = 1

\* a group whose records all have duration 0 was exported next to another group
C8_ZeroGroupReached ==
    /\ pc = "done"
    /\ Len(adjusted_entries) = 3
    /\ \A k \in 1..3 : adjusted_entries[k].operation = "Read"
                          <=> adjusted_entries[k].duration = 0
    /\ workbook # <<>>
    /\ Len(workbook[1].consolidated) = 1

====
